---- MODULE Spec2Model ----
(***************************************************************************)
(* The planning-poker room coordinator (worker/index.ts, class             *)
(* PlanningPokerRoom) as a state machine.  One step of the machine is one  *)
(* handler of the Durable Object run to completion: handleSession,         *)
(* webSocketMessage (one step per inbound message), webSocketClose /       *)
(* webSocketError, and the constructor run again after hibernation.        *)
(*                                                                         *)
(* Every message handed to ws.send during the step is recorded, in order,  *)
(* in `sent`, in its wire form (after JSON.stringify), together with       *)
(* whether the send returned or threw.                                     *)
(***************************************************************************)
EXTENDS Integers, Sequences, FiniteSets, TLC

(* ------------------------------ bounds --------------------------------- *)

\* Number of connections the room accepts over its lifetime.
MaxConns == 2

\* Number of sockets one client creates over its lifetime.
MaxSockets == 3

\* Number of messages the send functions of a client hand to its sockets.
MaxOutbox == 2

\* Length of the participant list up to which a client is sent userJoined.
MaxUsers == 2

(* ------------------------- program constants --------------------------- *)

\* data.name.slice(0, 32)
NameLimit == 32

\* setTimeout(() => { connect(); }, 2000)
ReconnectDelay == 2000

(* ------------------------------ values --------------------------------- *)

Conns == 1..MaxConns

\* No connection: the absent `exclude` argument of broadcast.
NoWs == 0

\* JavaScript null and undefined (a property that is absent from the parsed
\* message reads as undefined).
Null == "null"
Undefined == "undefined"

\* The card strings clients send here; the server does not validate them.
Cards == {"5"}

\* data.card of a vote message: a string, null, or absent.
CardInputs == Cards \cup {Null, Undefined}

\* A name is a string, modelled as a sequence of characters.
LongName == [i \in 1..(NameLimit + 1) |-> "x"]

\* data.name of a well-formed join message: empty, short, longer than the limit.
NameInputs == {<< >>, <<"a">>, LongName}

\* Mutant of RandomUUID: every call returns the same identifier.
RandomUUIDSame(n) == [uuid |-> 1]

\* crypto.randomUUID(): the n-th identifier generated, distinct from all others.
RandomUUID(n) == [uuid |-> n]

\* targetUserId of an emoji message: an identifier that may or may not be
\* a session's.
TargetInputs == {RandomUUID(1), RandomUUID(MaxConns + 1)}

EmojiInputs == {"e"}

(* ------------------------------- state --------------------------------- *)

VARIABLES
    sessions,      \* this.sessions: Map<WebSocket, SessionData>, in insertion order
    revealed,      \* this.revealed
    attachment,    \* per connection: the value of serializeAttachment
    accepted,      \* the connections state.getWebSockets() returns
    stale,         \* accepted connections whose peer is gone: send throws
    serverClosed,  \* connections the coordinator called close(1011) on
    nextConn,      \* the next connection to arrive (also counts the UUIDs drawn)
    last,          \* the handler that ran in the last step and its input
    sent,          \* the sends of the last step, in order
    lateDelivery,  \* whether a message received before its connection failed
                   \* may be handled after a send to that connection has thrown
    hook,          \* useWebSocket: the useState values the hook returns
    wsRef,         \* useWebSocket: wsRef.current
    reconnectTimeoutRef, \* useWebSocket: reconnectTimeoutRef.current
    readyState,    \* per client socket: its readyState
    timers,        \* the setTimeout timers that are pending
    outbox,        \* per client socket: the messages handed to its send, in order
    effect,        \* the useEffect of the hook: not yet run, active, cleaned up
    event          \* the client-side callback that ran in the last step

roomVars == <<sessions, revealed, attachment, accepted, stale, serverClosed,
              nextConn, last, sent, lateDelivery>>

clientVars == <<hook, wsRef, reconnectTimeoutRef, readyState, timers, outbox,
                effect, event>>

vars == <<roomVars, clientVars>>

NoAttachment == [userId |-> Null]

(* --------------------------- the registry ------------------------------ *)

\* this.sessions.has(ws)
Has(ss, ws) == \E i \in DOMAIN ss : ss[i].webSocket = ws

\* this.sessions.get(ws), for a ws the map has
Get(ss, ws) == ss[CHOOSE i \in DOMAIN ss : ss[i].webSocket = ws]

\* Assigning to a field of the object the map holds: the entry keeps its place.
Put(ss, rec) ==
    [i \in DOMAIN ss |-> IF ss[i].webSocket = rec.webSocket THEN rec ELSE ss[i]]

\* this.sessions.delete(ws) for every ws of a set
Delete(ss, gone) == SelectSeq(ss, LAMBDA s : s.webSocket \notin gone)

\* Mutant of IsNamed: every session counts as named.
IsNamedNoCheck(s) == s.name = s.name

\* Truthiness of session.name: a string is truthy unless it is empty.
IsNamed(s) == s.name # << >>

\* data.name.slice(0, 32)
\* Mutant of Slice: the name is stored as received.
SliceWhole(name) == name

Slice(name) ==
    IF Len(name) <= NameLimit THEN name ELSE SubSeq(name, 1, NameLimit)

\* { userId, name, vote } as handed to webSocket.serializeAttachment
\* Mutant of Meta: the attachment is written without the session's vote.
MetaNoVote(s) == [userId |-> s.userId, name |-> s.name, vote |-> Null]

Meta(s) == [userId |-> s.userId, name |-> s.name, vote |-> s.vote]

(* --------------------------- wire messages ----------------------------- *)

\* Mutant of HasVoted: only a card of the known palette counts as a vote.
HasVotedKnownCard(vote) == vote \in Cards

\* s.vote !== null
HasVoted(vote) == vote # Null

\* Mutant of UsersList: the filter on the name is missing.
UsersListUnfiltered(ss) ==
    [i \in DOMAIN ss |->
        [id |-> ss[i].userId,
         name |-> ss[i].name,
         hasVoted |-> ss[i].vote # Null]]

\* Array.from(this.sessions.values()).filter((s) => s.name).map(...)
UsersList(ss) ==
    LET named == SelectSeq(ss, IsNamed)
    IN  [i \in DOMAIN named |->
            [id |-> named[i].userId,
             name |-> named[i].name,
             hasVoted |-> HasVoted(named[i].vote)]]

\* An object built by assigning votes[s.userId] = s.vote for every named
\* session in iteration order (a later assignment to the same key wins).
VotesOfNamed(ss) ==
    LET named == {i \in DOMAIN ss : IsNamed(ss[i])}
        ids == {ss[i].userId : i \in named}
        lastOf(u) == CHOOSE i \in named :
                        /\ ss[i].userId = u
                        /\ \A j \in named : ss[j].userId = u => j <= i
    IN  [u \in ids |-> ss[lastOf(u)].vote]

\* Object.fromEntries(... .filter((s) => s.name).map((s) => [s.userId, s.vote]))
StateVotes(ss) == VotesOfNamed(ss)

\* const votes = {}; this.sessions.forEach((s) => { if (s.name) votes[s.userId] = s.vote })
CollectVotes(ss) == VotesOfNamed(ss)

\* JSON.stringify of an object: a property whose value is undefined is left out.
JsonObject(obj) ==
    [k \in {x \in DOMAIN obj : obj[x] # Undefined} |-> obj[k]]

\* Mutant of StateMessage: the votes are spread in whether or not revealed.
StateMessageAlwaysVotes(ss, rev) ==
    [type |-> "state", users |-> UsersList(ss), revealed |-> rev,
     votes |-> JsonObject(StateVotes(ss))]

\* The state message of a join, as sent: votes is spread in only when revealed.
StateMessage(ss, rev) ==
    IF rev
    THEN [type |-> "state", users |-> UsersList(ss), revealed |-> rev,
          votes |-> JsonObject(StateVotes(ss))]
    ELSE [type |-> "state", users |-> UsersList(ss), revealed |-> rev]

JoinedMessage(s) == [type |-> "joined", userId |-> s.userId, name |-> s.name]

UserJoinedMessage(s) == [type |-> "userJoined", userId |-> s.userId, name |-> s.name]

VotedMessage(s) ==
    [type |-> "voted", userId |-> s.userId, hasVoted |-> HasVoted(s.vote)]

RevealedMessage(ss) == [type |-> "revealed", votes |-> JsonObject(CollectVotes(ss))]

EmojiMessage(s, target, emoji) ==
    [type |-> "emoji", fromUserId |-> s.userId, toUserId |-> target, emoji |-> emoji]

ResetMessage == [type |-> "reset"]

UserLeftMessage(s) == [type |-> "userLeft", userId |-> s.userId]

ErrorMessage(text) == [type |-> "error", message |-> text]

MustJoinFirst == ErrorMessage("Must join first")

(* ------------------------------- sends --------------------------------- *)

\* ws.send(message): returns, or throws when the connection is stale.
Send(ws, message) == [to |-> ws, msg |-> message, ok |-> ws \notin stale]

\* The catch block of webSocketMessage: one more send, of the error's message,
\* to the connection the inbound message came from.
Catch(ws, log, text) == Append(log, Send(ws, ErrorMessage(text)))

\* A send made directly in the try block: when it throws, the catch block runs.
Direct(ws, log, message) ==
    LET s == Send(ws, message)
    IN  IF s.ok THEN Append(log, s) ELSE Catch(ws, Append(log, s), "send failed")

\* Whether every send of a log returned.
AllOk(log) == \A i \in DOMAIN log : log[i].ok

\* Mutant of Recipients: the excluded connection is not skipped.
RecipientsNoExclude(ss, exclude) ==
    SelectSeq(ss, LAMBDA s : s.name # << >>)

\* broadcast: the sessions the loop sends to, in iteration order.
\* Mutant of Recipients: sessions that have not joined receive broadcasts too.
RecipientsUnnamedToo(ss, exclude) ==
    SelectSeq(ss, LAMBDA s : s.webSocket # exclude)

Recipients(ss, exclude) ==
    SelectSeq(ss, LAMBDA s : s.webSocket # exclude /\ IsNamed(s))

\* Mutant of BroadcastSends: the first send that throws ends the loop.
BroadcastSendsAbort(ss, message, exclude) ==
    LET to == SelectSeq(ss, LAMBDA s : s.webSocket # exclude /\ s.name # << >>)
        all == [i \in DOMAIN to |-> Send(to[i].webSocket, message)]
        failing == {i \in DOMAIN all : ~all[i].ok}
    IN  IF failing = {} THEN all
        ELSE SubSeq(all, 1, CHOOSE i \in failing : \A j \in failing : i <= j)

\* broadcast: the sends of the loop; a throwing send does not end the loop.
BroadcastSends(ss, message, exclude) ==
    LET to == Recipients(ss, exclude)
    IN  [i \in DOMAIN to |-> Send(to[i].webSocket, message)]

\* broadcast: the connections whose send threw.
Quitters(log) == {log[i].to : i \in {j \in DOMAIN log : ~log[j].ok}}

\* broadcast: the registry after the quitters are deleted.
BroadcastSessions(ss, message, exclude) ==
    Delete(ss, Quitters(BroadcastSends(ss, message, exclude)))

(* ------------------------------ handlers ------------------------------- *)

(* ------------------------- the client: values -------------------------- *)

Sockets == 1..MaxSockets

\* wsRef.current = null
NoSocket == 0

\* reconnectTimeoutRef.current = undefined
NoTimer == 0

\* The userName argument of the hook.
UserName == <<"a">>

\* useState<Record<string, string | null>>({})
NoVotesYet == [u \in {} |-> Null]

\* The useState initial values.
HookInit ==
    [users |-> << >>, myUserId |-> Null, revealed |-> FALSE,
     votes |-> NoVotesYet, connected |-> FALSE, error |-> Null]

ClientInit ==
    /\ hook = HookInit
    /\ wsRef = NoSocket
    /\ reconnectTimeoutRef = NoTimer
    /\ readyState = [s \in Sockets |-> "none"]
    /\ timers = {}
    /\ outbox = [s \in Sockets |-> << >>]
    /\ effect = "pending"
    /\ event = [op |-> "render"]

(* ------------------------------ the room ------------------------------- *)

Init ==
    /\ sessions = << >>
    /\ revealed = FALSE
    /\ attachment = [c \in Conns |-> NoAttachment]
    /\ accepted = {}
    /\ stale = {}
    /\ serverClosed = {}
    /\ nextConn = 1
    /\ last = [op |-> "init", ws |-> NoWs]
    /\ sent = << >>
    /\ lateDelivery = FALSE
    /\ ClientInit

\* fetch("/websocket") -> handleSession(pair[1])
HandleSession ==
    /\ UNCHANGED <<lateDelivery, clientVars>>
    /\ nextConn <= MaxConns
    /\ LET ws == nextConn
           sessionData == [webSocket |-> ws, userId |-> RandomUUID(nextConn),
                           name |-> << >>, vote |-> Null]
       IN  /\ accepted' = accepted \cup {ws}
           /\ attachment' = [attachment EXCEPT ![ws] = Meta(sessionData)]
           /\ sessions' = Append(sessions, sessionData)
           /\ last' = [op |-> "accept", ws |-> ws]
    /\ nextConn' = nextConn + 1
    /\ sent' = << >>
    /\ UNCHANGED <<revealed, stale, serverClosed>>

\* The host delivers a message of a connection before that connection's close or
\* error event, so no message arrives on a connection whose peer is gone; with
\* lateDelivery, a message that was received before the connection failed may
\* still be handled after a send to the connection has thrown.
CanDeliver(ws) == ws \in accepted /\ (lateDelivery \/ ws \notin stale)

\* if (!session) { webSocket.close(1011, "Session not found"); return; }
SessionNotFound(ws) ==
    /\ serverClosed' = serverClosed \cup {ws}
    /\ sent' = << >>
    /\ UNCHANGED <<sessions, revealed, attachment>>

\* if (!session.name) { webSocket.send(error "Must join first"); return; }
JoinGate(ws) ==
    /\ sent' = Direct(ws, << >>, MustJoinFirst)
    /\ UNCHANGED <<sessions, revealed, attachment, serverClosed>>

\* case "join", data.name a string
Join(ws, name) ==
    /\ UNCHANGED <<lateDelivery, clientVars>>
    /\ CanDeliver(ws)
    /\ last' = [op |-> "join", ws |-> ws, name |-> name]
    /\ UNCHANGED <<accepted, stale, nextConn>>
    /\ IF ~Has(sessions, ws) THEN SessionNotFound(ws) ELSE
       LET session == [Get(sessions, ws) EXCEPT !.name = Slice(name)]
           ss == Put(sessions, session)
           direct == Direct(ws, << >>, StateMessage(ss, revealed))
           direct2 == Direct(ws, direct, JoinedMessage(session))
           message == UserJoinedMessage(session)
       IN  /\ attachment' = [attachment EXCEPT ![ws] = Meta(session)]
           /\ UNCHANGED <<revealed, serverClosed>>
           /\ IF ~AllOk(direct)
              THEN sent' = direct /\ sessions' = ss
              ELSE IF ~AllOk(direct2)
              THEN sent' = direct2 /\ sessions' = ss
              ELSE /\ sent' = direct2 \o BroadcastSends(ss, message, ws)
                   /\ sessions' = BroadcastSessions(ss, message, ws)

\* case "join", data.name absent: data.name.slice throws a TypeError
JoinNoName(ws) ==
    /\ UNCHANGED <<lateDelivery, clientVars>>
    /\ CanDeliver(ws)
    /\ last' = [op |-> "joinNoName", ws |-> ws]
    /\ UNCHANGED <<accepted, stale, nextConn>>
    /\ IF ~Has(sessions, ws) THEN SessionNotFound(ws) ELSE
       /\ sent' = Catch(ws, << >>, "TypeError")
       /\ UNCHANGED <<sessions, revealed, attachment, serverClosed>>

\* JSON.parse(message) throws a SyntaxError
Unparseable(ws) ==
    /\ UNCHANGED <<lateDelivery, clientVars>>
    /\ CanDeliver(ws)
    /\ last' = [op |-> "unparseable", ws |-> ws]
    /\ UNCHANGED <<accepted, stale, nextConn>>
    /\ IF ~Has(sessions, ws) THEN SessionNotFound(ws) ELSE
       /\ sent' = Catch(ws, << >>, "SyntaxError")
       /\ UNCHANGED <<sessions, revealed, attachment, serverClosed>>

\* A parsed message whose type matches no case of the switch
UnknownTag(ws) ==
    /\ UNCHANGED <<lateDelivery, clientVars>>
    /\ CanDeliver(ws)
    /\ last' = [op |-> "unknown", ws |-> ws]
    /\ UNCHANGED <<accepted, stale, nextConn>>
    /\ IF ~Has(sessions, ws) THEN SessionNotFound(ws) ELSE
       /\ sent' = << >>
       /\ UNCHANGED <<sessions, revealed, attachment, serverClosed>>

\* case "vote"
Vote(ws, card) ==
    /\ UNCHANGED <<lateDelivery, clientVars>>
    /\ CanDeliver(ws)
    /\ last' = [op |-> "vote", ws |-> ws, card |-> card]
    /\ UNCHANGED <<accepted, stale, nextConn>>
    /\ IF ~Has(sessions, ws) THEN SessionNotFound(ws)
       ELSE IF ~IsNamed(Get(sessions, ws)) THEN JoinGate(ws) ELSE
       LET session == [Get(sessions, ws) EXCEPT !.vote = card]
           ss == Put(sessions, session)
           message == VotedMessage(session)
       IN  /\ attachment' = [attachment EXCEPT ![ws] = Meta(session)]
           /\ sent' = BroadcastSends(ss, message, NoWs)
           /\ sessions' = BroadcastSessions(ss, message, NoWs)
           /\ UNCHANGED <<revealed, serverClosed>>

\* case "reveal"
\* Mutant of Reveal: the votes are revealed only once a vote has been cast.
RevealWithQuorum(ws) ==
    /\ UNCHANGED <<lateDelivery, clientVars>>
    /\ CanDeliver(ws)
    /\ last' = [op |-> "reveal", ws |-> ws]
    /\ UNCHANGED <<accepted, stale, nextConn>>
    /\ IF ~Has(sessions, ws) THEN SessionNotFound(ws)
       ELSE IF ~IsNamed(Get(sessions, ws)) THEN JoinGate(ws) ELSE
       LET message == RevealedMessage(sessions)
       IN  /\ revealed' = (\E i \in DOMAIN sessions : sessions[i].vote # Null)
           /\ sent' = BroadcastSends(sessions, message, NoWs)
           /\ sessions' = BroadcastSessions(sessions, message, NoWs)
           /\ UNCHANGED <<attachment, serverClosed>>

Reveal(ws) ==
    /\ UNCHANGED <<lateDelivery, clientVars>>
    /\ CanDeliver(ws)
    /\ last' = [op |-> "reveal", ws |-> ws]
    /\ UNCHANGED <<accepted, stale, nextConn>>
    /\ IF ~Has(sessions, ws) THEN SessionNotFound(ws)
       ELSE IF ~IsNamed(Get(sessions, ws)) THEN JoinGate(ws) ELSE
       LET message == RevealedMessage(sessions)
       IN  /\ revealed' = TRUE
           /\ sent' = BroadcastSends(sessions, message, NoWs)
           /\ sessions' = BroadcastSessions(sessions, message, NoWs)
           /\ UNCHANGED <<attachment, serverClosed>>

\* case "emoji"
\* Mutant of Emoji: the sender is excluded from the broadcast.
EmojiExcludingSender(ws, target, emoji) ==
    /\ UNCHANGED <<lateDelivery, clientVars>>
    /\ CanDeliver(ws)
    /\ last' = [op |-> "emoji", ws |-> ws, target |-> target, emoji |-> emoji]
    /\ UNCHANGED <<accepted, stale, nextConn>>
    /\ IF ~Has(sessions, ws) THEN SessionNotFound(ws)
       ELSE IF ~IsNamed(Get(sessions, ws)) THEN JoinGate(ws) ELSE
       LET message == EmojiMessage(Get(sessions, ws), target, emoji)
       IN  /\ sent' = BroadcastSends(sessions, message, ws)
           /\ sessions' = BroadcastSessions(sessions, message, ws)
           /\ UNCHANGED <<revealed, attachment, serverClosed>>

Emoji(ws, target, emoji) ==
    /\ UNCHANGED <<lateDelivery, clientVars>>
    /\ CanDeliver(ws)
    /\ last' = [op |-> "emoji", ws |-> ws, target |-> target, emoji |-> emoji]
    /\ UNCHANGED <<accepted, stale, nextConn>>
    /\ IF ~Has(sessions, ws) THEN SessionNotFound(ws)
       ELSE IF ~IsNamed(Get(sessions, ws)) THEN JoinGate(ws) ELSE
       LET message == EmojiMessage(Get(sessions, ws), target, emoji)
       IN  /\ sent' = BroadcastSends(sessions, message, NoWs)
           /\ sessions' = BroadcastSessions(sessions, message, NoWs)
           /\ UNCHANGED <<revealed, attachment, serverClosed>>

\* Mutant of ResetVotes: only the named sessions are cleared.
ResetVotesOfNamed(ss) ==
    [i \in DOMAIN ss |->
        IF ss[i].name # << >> THEN [ss[i] EXCEPT !.vote = Null] ELSE ss[i]]

\* this.sessions.forEach((s) => { s.vote = null; s.webSocket.serializeAttachment(...) })
\* Mutant of ResetVotes: a reset clears the names together with the votes.
ResetVotesAndNames(ss) ==
    [i \in DOMAIN ss |-> [ss[i] EXCEPT !.vote = Null, !.name = << >>]]

ResetVotes(ss) == [i \in DOMAIN ss |-> [ss[i] EXCEPT !.vote = Null]]

\* case "reset"
Reset(ws) ==
    /\ UNCHANGED <<lateDelivery, clientVars>>
    /\ CanDeliver(ws)
    /\ last' = [op |-> "reset", ws |-> ws]
    /\ UNCHANGED <<accepted, stale, nextConn>>
    /\ IF ~Has(sessions, ws) THEN SessionNotFound(ws)
       ELSE IF ~IsNamed(Get(sessions, ws)) THEN JoinGate(ws) ELSE
       LET ss == ResetVotes(sessions)
       IN  /\ revealed' = FALSE
           /\ attachment' = [c \in Conns |->
                                IF Has(ss, c) THEN Meta(Get(ss, c)) ELSE attachment[c]]
           /\ sent' = BroadcastSends(ss, ResetMessage, NoWs)
           /\ sessions' = BroadcastSessions(ss, ResetMessage, NoWs)
           /\ UNCHANGED serverClosed

\* The peer of an accepted connection goes away: from now on send on it throws.
\* The host calls webSocketClose or webSocketError for it later.
Drop(ws) ==
    /\ UNCHANGED <<lateDelivery, clientVars>>
    /\ ws \in accepted \ stale
    /\ stale' = stale \cup {ws}
    /\ last' = [op |-> "drop", ws |-> ws]
    /\ sent' = << >>
    /\ UNCHANGED <<sessions, revealed, attachment, accepted, serverClosed, nextConn>>

\* Mutant of CloseOrErrorHandler: the session is deleted only inside the if, so
\* an anonymous session stays in the registry.
CloseOrErrorHandlerNamedOnly(ws) ==
    /\ UNCHANGED <<lateDelivery, clientVars>>
    /\ ws \in accepted
    /\ last' = [op |-> "close", ws |-> ws]
    /\ IF Has(sessions, ws) /\ Get(sessions, ws).name # << >>
       THEN LET message == UserLeftMessage(Get(sessions, ws))
            IN  /\ sent' = BroadcastSends(sessions, message, NoWs)
                /\ sessions' = Delete(BroadcastSessions(sessions, message, NoWs), {ws})
       ELSE /\ sent' = << >>
            /\ sessions' = sessions
    /\ accepted' = accepted \ {ws}
    /\ stale' = stale \ {ws}
    /\ attachment' = [attachment EXCEPT ![ws] = NoAttachment]
    /\ UNCHANGED <<revealed, serverClosed, nextConn>>

\* webSocketClose / webSocketError -> closeOrErrorHandler
CloseOrErrorHandler(ws) ==
    /\ UNCHANGED <<lateDelivery, clientVars>>
    /\ ws \in accepted
    /\ last' = [op |-> "close", ws |-> ws]
    /\ IF Has(sessions, ws) /\ IsNamed(Get(sessions, ws))
       THEN LET message == UserLeftMessage(Get(sessions, ws))
            IN  /\ sent' = BroadcastSends(sessions, message, NoWs)
                /\ sessions' = Delete(BroadcastSessions(sessions, message, NoWs), {ws})
       ELSE /\ sent' = << >>
            /\ sessions' = Delete(sessions, {ws})
    /\ accepted' = accepted \ {ws}
    /\ stale' = stale \ {ws}
    /\ attachment' = [attachment EXCEPT ![ws] = NoAttachment]
    /\ UNCHANGED <<revealed, serverClosed, nextConn>>

\* state.getWebSockets(): the accepted connections, oldest first.
GetWebSockets ==
    LET F[n \in 0..MaxConns] ==
            IF n = 0 THEN << >>
            ELSE IF n \in accepted THEN Append(F[n - 1], n) ELSE F[n - 1]
    IN  F[MaxConns]

\* Mutant of Constructor: the registry is rebuilt with the fields a fresh
\* session gets, not from the attachments.
ConstructorFresh ==
    /\ UNCHANGED <<lateDelivery, clientVars>>
    /\ lateDelivery \/ stale = {}
    /\ sessions' = [i \in DOMAIN GetWebSockets |->
                        [webSocket |-> GetWebSockets[i],
                         userId |-> attachment[GetWebSockets[i]].userId,
                         name |-> << >>,
                         vote |-> Null]]
    /\ revealed' = FALSE
    /\ last' = [op |-> "resume", ws |-> NoWs, was |-> revealed]
    /\ sent' = << >>
    /\ UNCHANGED <<attachment, accepted, stale, serverClosed, nextConn>>

\* Mutant of Constructor: the revealed flag survives the suspension.
ConstructorKeepsRevealed ==
    /\ UNCHANGED <<lateDelivery, clientVars>>
    /\ lateDelivery \/ stale = {}
    /\ sessions' = [i \in DOMAIN GetWebSockets |->
                        [webSocket |-> GetWebSockets[i],
                         userId |-> attachment[GetWebSockets[i]].userId,
                         name |-> attachment[GetWebSockets[i]].name,
                         vote |-> attachment[GetWebSockets[i]].vote]]
    /\ last' = [op |-> "resume", ws |-> NoWs, was |-> revealed]
    /\ sent' = << >>
    /\ UNCHANGED <<revealed, attachment, accepted, stale, serverClosed, nextConn>>

\* Mutant of Constructor: the resumed sessions get newly drawn identifiers.
ConstructorNewIds ==
    /\ UNCHANGED <<lateDelivery, clientVars>>
    /\ lateDelivery \/ stale = {}
    /\ sessions' = [i \in DOMAIN GetWebSockets |->
                        [webSocket |-> GetWebSockets[i],
                         userId |-> RandomUUID(MaxConns + GetWebSockets[i]),
                         name |-> attachment[GetWebSockets[i]].name,
                         vote |-> attachment[GetWebSockets[i]].vote]]
    /\ revealed' = FALSE
    /\ last' = [op |-> "resume", ws |-> NoWs, was |-> revealed]
    /\ sent' = << >>
    /\ UNCHANGED <<attachment, accepted, stale, serverClosed, nextConn>>

\* The host suspends the coordinator while it is idle (no close or error event
\* is waiting to be delivered; with lateDelivery, also while the close event of
\* a failed connection is still to come) and constructs it again for the next
\* event: the constructor rebuilds the registry from the attachments.
Constructor ==
    /\ UNCHANGED <<lateDelivery, clientVars>>
    /\ lateDelivery \/ stale = {}
    /\ sessions' = [i \in DOMAIN GetWebSockets |->
                        [webSocket |-> GetWebSockets[i],
                         userId |-> attachment[GetWebSockets[i]].userId,
                         name |-> attachment[GetWebSockets[i]].name,
                         vote |-> attachment[GetWebSockets[i]].vote]]
    /\ revealed' = FALSE
    /\ last' = [op |-> "resume", ws |-> NoWs, was |-> revealed]
    /\ sent' = << >>
    /\ UNCHANGED <<attachment, accepted, stale, serverClosed, nextConn>>

Next ==
    \/ HandleSession
    \/ \E ws \in Conns, name \in NameInputs : Join(ws, name)
    \/ \E ws \in Conns : JoinNoName(ws)
    \/ \E ws \in Conns : Unparseable(ws)
    \/ \E ws \in Conns : UnknownTag(ws)
    \/ \E ws \in Conns, card \in CardInputs : Vote(ws, card)
    \/ \E ws \in Conns : Reveal(ws)
    \/ \E ws \in Conns, target \in TargetInputs, emoji \in EmojiInputs :
          Emoji(ws, target, emoji)
    \/ \E ws \in Conns : Reset(ws)
    \/ \E ws \in Conns : Drop(ws)
    \/ \E ws \in Conns : CloseOrErrorHandler(ws)
    \/ Constructor

Spec == Init /\ [][Next]_vars

\* The room when the host may hand over a message of a connection after a send
\* to that connection has thrown, and may suspend the coordinator before it has
\* delivered the close event of such a connection.
InitLate ==
    /\ sessions = << >>
    /\ revealed = FALSE
    /\ attachment = [c \in Conns |-> NoAttachment]
    /\ accepted = {}
    /\ stale = {}
    /\ serverClosed = {}
    /\ nextConn = 1
    /\ last = [op |-> "init", ws |-> NoWs]
    /\ sent = << >>
    /\ lateDelivery = TRUE
    /\ ClientInit

SpecLate == InitLate /\ [][Next]_vars

(* ------------------------------ the client ----------------------------- *)
(* hooks/useWebSocket.ts: one mounted PlanningPoker component.  One step   *)
(* is one callback run to completion: the effect, its cleanup, a socket    *)
(* event handler, the reconnect timer, or one of the send functions.       *)

\* The number of sockets created so far; the next socket gets the next number.
Created == Cardinality({s \in Sockets : readyState[s] # "none"})

\* A state setter called after the component has unmounted changes nothing.
SetState(next) == IF effect = "cleaned" THEN hook ELSE next

\* The messages the send functions and onopen serialize.
JoinRequest == [type |-> "join", name |-> UserName]

VoteRequest(card) == [type |-> "vote", card |-> card]

RevealRequest == [type |-> "reveal"]

ResetRequest == [type |-> "reset"]

EmojiRequest(target, emoji) ==
    [type |-> "emoji", targetUserId |-> target, emoji |-> emoji]

\* sendVote(card: string | null)
VoteCalls == Cards \cup {Null}

\* A session as the coordinator holds it, for the messages a client is sent.
Member(n, vote) ==
    [webSocket |-> n, userId |-> RandomUUID(n), name |-> <<"a">>, vote |-> vote]

\* Registries of one and of two named sessions.
Rooms ==
    {<<Member(1, v)>> : v \in VoteCalls}
        \cup {<<Member(1, v), Member(2, w)>> : v \in VoteCalls, w \in VoteCalls}

\* The messages a client is sent here: what the coordinator builds for Rooms.
ServerMessages ==
    {StateMessage(ss, rev) : ss \in Rooms, rev \in BOOLEAN}
        \cup {RevealedMessage(ss) : ss \in Rooms}
        \cup {JoinedMessage(Member(1, Null)), UserJoinedMessage(Member(2, Null))}
        \cup {UserLeftMessage(Member(n, Null)) : n \in 1..2}
        \cup {VotedMessage(Member(n, v)) : n \in 1..2, v \in VoteCalls}
        \cup {ResetMessage,
              EmojiMessage(Member(2, Null), RandomUUID(1), "e"),
              MustJoinFirst}

\* Mutant of WithoutVote: the entry stays.
WithoutVoteKept(votes, userId) == votes

\* const newVotes = { ...prev }; delete newVotes[message.userId]
WithoutVote(votes, userId) == [k \in DOMAIN votes \ {userId} |-> votes[k]]

\* ws.onmessage: the hook state after a message, from the state before it.
Received(h, m) ==
    CASE m.type = "joined" -> [h EXCEPT !.myUserId = m.userId]
      [] m.type = "state" ->
            [h EXCEPT !.users = m.users,
                      !.revealed = m.revealed,
                      !.votes = IF "votes" \in DOMAIN m THEN m.votes ELSE h.votes]
      [] m.type = "userJoined" ->
            [h EXCEPT !.users =
                Append(h.users,
                       [id |-> m.userId, name |-> m.name, hasVoted |-> FALSE])]
      [] m.type = "userLeft" ->
            [h EXCEPT !.users = SelectSeq(h.users, LAMBDA u : u.id # m.userId),
                      !.votes = WithoutVote(h.votes, m.userId)]
      [] m.type = "voted" ->
            [h EXCEPT !.users =
                [i \in DOMAIN h.users |->
                    IF h.users[i].id = m.userId
                    THEN [id |-> h.users[i].id, name |-> h.users[i].name,
                          hasVoted |-> m.hasVoted]
                    ELSE h.users[i]]]
      [] m.type = "revealed" -> [h EXCEPT !.revealed = TRUE, !.votes = m.votes]
      [] m.type = "reset" ->
            [h EXCEPT !.revealed = FALSE,
                      !.votes = NoVotesYet,
                      !.users =
                          [i \in DOMAIN h.users |->
                              [id |-> h.users[i].id, name |-> h.users[i].name,
                               hasVoted |-> FALSE]]]
      [] m.type = "error" -> [h EXCEPT !.error = m.message]
      [] OTHER -> h

\* connect(): nothing when the current socket is open, a new socket otherwise.
Connect ==
    IF wsRef # NoSocket /\ readyState[wsRef] = "OPEN"
    THEN UNCHANGED <<wsRef, readyState>>
    ELSE /\ Created < MaxSockets
         /\ readyState' = [readyState EXCEPT ![Created + 1] = "CONNECTING"]
         /\ wsRef' = Created + 1

\* useEffect(() => { connect(); return cleanup }, [connect]): the effect runs
\* once, as roomId and userName never change while the component is mounted.
UseEffect ==
    /\ effect = "pending"
    /\ effect' = "active"
    /\ Connect
    /\ event' = [op |-> "effect"]
    /\ UNCHANGED <<hook, reconnectTimeoutRef, timers, outbox>>
    /\ UNCHANGED roomVars

\* Mutant of OnOpen: the join is not sent.
OnOpenSilent(ws) ==
    /\ readyState[ws] = "CONNECTING"
    /\ readyState' = [readyState EXCEPT ![ws] = "OPEN"]
    /\ hook' = SetState([hook EXCEPT !.connected = TRUE, !.error = Null])
    /\ event' = [op |-> "onopen", ws |-> ws]
    /\ UNCHANGED <<wsRef, reconnectTimeoutRef, timers, effect, outbox>>
    /\ UNCHANGED roomVars

\* ws.onopen
OnOpen(ws) ==
    /\ readyState[ws] = "CONNECTING"
    /\ readyState' = [readyState EXCEPT ![ws] = "OPEN"]
    /\ hook' = SetState([hook EXCEPT !.connected = TRUE, !.error = Null])
    /\ outbox' = [outbox EXCEPT ![ws] = Append(outbox[ws], JoinRequest)]
    /\ event' = [op |-> "onopen", ws |-> ws]
    /\ UNCHANGED <<wsRef, reconnectTimeoutRef, timers, effect>>
    /\ UNCHANGED roomVars

\* ws.onmessage
OnMessage(ws, m) ==
    /\ readyState[ws] = "OPEN"
    /\ m.type = "userJoined" => Len(hook.users) < MaxUsers
    /\ hook' = SetState(Received(hook, m))
    /\ event' = [op |-> "onmessage", ws |-> ws, message |-> m]
    /\ UNCHANGED <<wsRef, reconnectTimeoutRef, readyState, timers, outbox, effect>>
    /\ UNCHANGED roomVars

\* Mutant of OnClose: no reconnection is scheduled after the first retry.
OnCloseRetryOnce(ws, failed) ==
    /\ readyState[ws] \in {"CONNECTING", "OPEN", "CLOSING"}
    /\ readyState[ws] # "CLOSING" => Created < MaxSockets
    /\ readyState' = [readyState EXCEPT ![ws] = "CLOSED"]
    /\ hook' = SetState([hook EXCEPT
                            !.error = IF failed THEN "WebSocket error occurred"
                                      ELSE hook.error,
                            !.connected = FALSE])
    /\ wsRef' = NoSocket
    /\ IF reconnectTimeoutRef = NoTimer
       THEN /\ reconnectTimeoutRef' = reconnectTimeoutRef + 1
            /\ timers' = timers \cup {[id |-> reconnectTimeoutRef + 1,
                                       delay |-> ReconnectDelay]}
       ELSE UNCHANGED <<reconnectTimeoutRef, timers>>
    /\ event' = [op |-> "onclose", ws |-> ws, failed |-> failed]
    /\ UNCHANGED <<outbox, effect>>
    /\ UNCHANGED roomVars

\* The socket closes: after the client's own close(), or, while the client can
\* still open another socket, because the server or the network ended it.  A
\* failed connection runs ws.onerror before ws.onclose.
OnClose(ws, failed) ==
    /\ readyState[ws] \in {"CONNECTING", "OPEN", "CLOSING"}
    /\ readyState[ws] # "CLOSING" => Created < MaxSockets
    /\ readyState' = [readyState EXCEPT ![ws] = "CLOSED"]
    /\ hook' = SetState([hook EXCEPT
                            !.error = IF failed THEN "WebSocket error occurred"
                                      ELSE hook.error,
                            !.connected = FALSE])
    /\ wsRef' = NoSocket
    /\ reconnectTimeoutRef' = reconnectTimeoutRef + 1
    /\ timers' = timers \cup {[id |-> reconnectTimeoutRef + 1,
                               delay |-> ReconnectDelay]}
    /\ event' = [op |-> "onclose", ws |-> ws, failed |-> failed]
    /\ UNCHANGED <<outbox, effect>>
    /\ UNCHANGED roomVars

\* The reconnect timer fires: connect().
TimerFires(t) ==
    /\ t \in timers
    /\ timers' = timers \ {t}
    /\ Connect
    /\ event' = [op |-> "timer", id |-> t.id]
    /\ UNCHANGED <<hook, reconnectTimeoutRef, outbox, effect>>
    /\ UNCHANGED roomVars

\* The cleanup of the effect, at unmount: clearTimeout of the timer the ref
\* names, close() of the socket the ref names.
Cleanup ==
    /\ effect = "active"
    /\ effect' = "cleaned"
    /\ timers' = {t \in timers : t.id # reconnectTimeoutRef}
    /\ readyState' =
          IF wsRef # NoSocket /\ readyState[wsRef] \in {"CONNECTING", "OPEN"}
          THEN [readyState EXCEPT ![wsRef] = "CLOSING"]
          ELSE readyState
    /\ event' = [op |-> "cleanup"]
    /\ UNCHANGED <<hook, wsRef, reconnectTimeoutRef, outbox>>
    /\ UNCHANGED roomVars

\* Mutant of ClientSend: the message is handed to the socket whatever its state.
ClientSendUnguarded(message) ==
    IF wsRef # NoSocket
    THEN [outbox EXCEPT ![wsRef] = Append(outbox[wsRef], message)]
    ELSE outbox

\* if (wsRef.current?.readyState === WebSocket.OPEN) wsRef.current.send(...)
ClientSend(message) ==
    IF wsRef # NoSocket /\ readyState[wsRef] = "OPEN"
    THEN [outbox EXCEPT ![wsRef] = Append(outbox[wsRef], message)]
    ELSE outbox

\* The messages handed to a socket so far by the send functions.
Handed ==
    {<<s, i>> \in Sockets \X (1..(MaxOutbox + 1)) :
        i \in DOMAIN outbox[s] /\ outbox[s][i] # JoinRequest}

\* A call of one of the send functions by the mounted component.
Call(name, message) ==
    /\ effect = "active"
    /\ Cardinality(Handed) < MaxOutbox
    /\ outbox' = ClientSend(message)
    /\ event' = [op |-> name, message |-> message]
    /\ UNCHANGED <<hook, wsRef, reconnectTimeoutRef, readyState, timers, effect>>
    /\ UNCHANGED roomVars

SendVote(card) == Call("sendVote", VoteRequest(card))

SendReveal == Call("sendReveal", RevealRequest)

SendReset == Call("sendReset", ResetRequest)

SendEmoji(target, emoji) == Call("sendEmoji", EmojiRequest(target, emoji))

\* The connection life cycle and the send functions.  ws.onmessage is left to
\* MirrorSpec: it assigns only users, myUserId, revealed, votes and error, which
\* no other callback of the hook reads.
ClientNext ==
    \/ UseEffect
    \/ \E ws \in Sockets : OnOpen(ws)
    \/ \E ws \in Sockets, failed \in BOOLEAN : OnClose(ws, failed)
    \/ \E t \in timers : TimerFires(t)
    \/ Cleanup
    \/ \E card \in VoteCalls : SendVote(card)
    \/ SendReveal
    \/ SendReset
    \/ \E target \in TargetInputs, emoji \in EmojiInputs : SendEmoji(target, emoji)

ClientSpec == Init /\ [][ClientNext]_vars

\* A timer set with setTimeout fires unless it is cleared.
ClientLiveSpec ==
    Init /\ [][ClientNext]_vars /\ WF_vars(\E t \in timers : TimerFires(t))

\* roomId or userName changes while the component is mounted: connect is a new
\* callback, so the cleanup of the effect runs and then the effect again, in
\* one commit.  After close() the current socket is not OPEN, so connect()
\* always creates a socket here.
Rerun ==
    /\ effect = "active"
    /\ Created < MaxSockets
    /\ timers' = {t \in timers : t.id # reconnectTimeoutRef}
    /\ readyState' =
          [s \in Sockets |->
              IF s = Created + 1 THEN "CONNECTING"
              ELSE IF s = wsRef /\ readyState[s] \in {"CONNECTING", "OPEN"}
              THEN "CLOSING"
              ELSE readyState[s]]
    /\ wsRef' = Created + 1
    /\ event' = [op |-> "rerun"]
    /\ UNCHANGED <<hook, reconnectTimeoutRef, outbox, effect>>
    /\ UNCHANGED roomVars

\* The connection life cycle of a component whose roomId or userName may change.
RerunNext ==
    \/ UseEffect
    \/ \E ws \in Sockets : OnOpen(ws)
    \/ \E ws \in Sockets, failed \in BOOLEAN : OnClose(ws, failed)
    \/ \E t \in timers : TimerFires(t)
    \/ Cleanup
    \/ Rerun

RerunSpec == Init /\ [][RerunNext]_vars

\* The local mirror: the messages a mounted client receives, across
\* reconnections.
MirrorNext ==
    \/ UseEffect
    \/ \E ws \in Sockets : OnOpen(ws)
    \/ \E ws \in Sockets, m \in ServerMessages : OnMessage(ws, m)
    \/ \E ws \in Sockets, failed \in BOOLEAN : OnClose(ws, failed)
    \/ \E t \in timers : TimerFires(t)

MirrorSpec == Init /\ [][MirrorNext]_vars

(* ------------------------- reading a step ------------------------------ *)

\* The fields of the wire catalog that carry no vote value.
VoteFreeFields ==
    {"type", "users", "revealed", "userId", "name", "hasVoted",
     "fromUserId", "toUserId", "emoji", "message"}

VoteFreeUserFields == {"id", "name", "hasVoted"}

\* A message that carries a raw vote: a votes map, or any field that is not one
\* of the vote-free fields of the catalog.
CarriesVote(m) ==
    \/ ~(DOMAIN m \subseteq VoteFreeFields)
    \/ /\ "users" \in DOMAIN m
       /\ \E i \in DOMAIN m.users : ~(DOMAIN m.users[i] \subseteq VoteFreeUserFields)

\* The join-gated message types.
GatedOps == {"vote", "reveal", "reset", "emoji"}

\* The step handles a message from a connection that has a session.
MessageStep(op) == last'.op = op /\ Has(sessions, last'.ws)

\* The session of the connection the step's message came from, before the step.
Requester == Get(sessions, last'.ws)

\* The connections of the sessions of ss that have a non-empty name.
NamedConns(ss) == {ss[i].webSocket : i \in {j \in DOMAIN ss : ss[j].name # << >>}}

\* The connections a log sends to.
SentTo(log) == {log[i].to : i \in DOMAIN log}

\* How many sends of a log go to ws.
CountTo(log, ws) == Cardinality({i \in DOMAIN log : log[i].to = ws})

(* ------------------------------ claims --------------------------------- *)

\* C1 (vote secrecy): whenever a handler ends with revealed = false, none of
\* the messages it sent, to any connection, carries a raw vote value: the only
\* vote-derived field on the wire is the hasVoted boolean.
C1_VoteSecrecy ==
    ~revealed => \A i \in DOMAIN sent : ~CarriesVote(sent[i].msg)

\* C1 witness: with the room hidden, a cast vote has just been fanned out to two
\* named sessions.
C1_Witness ==
    /\ ~revealed
    /\ last.op = "vote" /\ last.card \in Cards
    /\ Len(sent) = 2
    /\ \A i \in DOMAIN sent : sent[i].msg.type = "voted" /\ sent[i].msg.hasVoted

NamedAtJoin ==
    {j \in DOMAIN sessions :
        IF sessions[j].webSocket = last'.ws
        THEN last'.name # << >>
        ELSE sessions[j].name # << >>}

\* The vote of a session as the wire shows it: the card, or null for no vote.
WireVote(vote) == IF vote \in Cards THEN vote ELSE Null

\* C3 (reveal map): the votes map of the revealed message a reveal from a named
\* session broadcasts has exactly the userIds of the named sessions as keys, and
\* maps each to that session's vote, null when it has not voted.
C3_RevealMap ==
    [][(MessageStep("reveal") /\ Requester.name # << >>) =>
          /\ sent' # << >>
          /\ \A i \in DOMAIN sent' :
                /\ sent'[i].msg.type = "revealed"
                /\ DOMAIN sent'[i].msg.votes =
                      {sessions[j].userId :
                          j \in {k \in DOMAIN sessions : sessions[k].name # << >>}}
                /\ \A j \in DOMAIN sessions :
                      sessions[j].name # << >> =>
                          sent'[i].msg.votes[sessions[j].userId]
                              = WireVote(sessions[j].vote)]_vars

\* C4 (participant snapshot): the state message answering a join lists exactly
\* the sessions named at that moment, each once, the requester among them, and
\* an entry's hasVoted is true exactly when that session's vote is not null.
C4_ParticipantSnapshot ==
    [][MessageStep("join") =>
          LET users == sent'[1].msg.users
          IN  /\ sent'[1].to = last'.ws
              /\ sent'[1].msg.type = "state"
              /\ \A j \in NamedAtJoin :
                    Cardinality({i \in DOMAIN users :
                                    users[i].id = sessions[j].userId}) = 1
              /\ \A i \in DOMAIN users :
                    \E j \in NamedAtJoin :
                        /\ users[i].id = sessions[j].userId
                        /\ users[i].hasVoted = (sessions[j].vote # Null)
              /\ last'.name # << >> =>
                    \E i \in DOMAIN users : users[i].id = Requester.userId]_vars

\* C4 witness: a join was answered with a list of two participants, one who has
\* voted and one who has not.
C4_Witness ==
    /\ last.op = "join"
    /\ Len(sent) >= 1 /\ sent[1].msg.type = "state"
    /\ Len(sent[1].msg.users) = 2
    /\ \E i, j \in DOMAIN sent[1].msg.users :
          sent[1].msg.users[i].hasVoted /\ ~sent[1].msg.users[j].hasVoted

C6_StateVotes ==
    [][MessageStep("join") =>
          LET m == sent'[1].msg
          IN  /\ ("votes" \in DOMAIN m) <=> revealed
              /\ "votes" \in DOMAIN m =>
                    /\ DOMAIN m.votes = {sessions[j].userId : j \in NamedAtJoin}
                    /\ \A j \in NamedAtJoin :
                          m.votes[sessions[j].userId] = WireVote(sessions[j].vote)]_vars

\* C7 (vote fan-out): a vote from a named session stores the given card as that
\* session's vote and changes nothing else (no other session's name or vote, not
\* the revealed flag), and sends voted {userId, hasVoted} once to every named
\* session, the voter included, with the voter's userId and hasVoted true
\* exactly when the stored vote is a cast vote.
C7_VoteFanOut ==
    [][(MessageStep("vote") /\ Requester.name # << >>) =>
          LET ws == last'.ws
          IN  /\ Get(sessions', ws) = [Requester EXCEPT !.vote = last'.card]
              /\ attachment'[ws].vote = last'.card
              /\ \A i \in DOMAIN sessions' :
                    sessions'[i].webSocket # ws =>
                        \E j \in DOMAIN sessions : sessions[j] = sessions'[i]
              /\ \A c \in Conns \ {ws} : attachment'[c] = attachment[c]
              /\ revealed' = revealed
              /\ SentTo(sent') = NamedConns(sessions)
              /\ \A c \in NamedConns(sessions) : CountTo(sent', c) = 1
              /\ \A i \in DOMAIN sent' :
                    sent'[i].msg = [type |-> "voted", userId |-> Requester.userId,
                                    hasVoted |-> (last'.card \in Cards)]]_vars

\* C8 (vote retraction): a vote from a named session with card null or with no
\* card field retracts the vote: the voted broadcast carries hasVoted = false,
\* and a state snapshot and a reveal map taken afterwards show the session as
\* not having voted, with a null vote.
C8_VoteRetraction ==
    [][(MessageStep("vote") /\ Requester.name # << >>
            /\ last'.card \in {Null, Undefined}) =>
          LET u == Requester.userId
              snapshot == StateMessage(sessions', TRUE)
              reveal == RevealedMessage(sessions')
          IN  /\ \A i \in DOMAIN sent' :
                    sent'[i].msg.type = "voted" /\ ~sent'[i].msg.hasVoted
              /\ \A i \in DOMAIN snapshot.users :
                    snapshot.users[i].id = u => ~snapshot.users[i].hasVoted
              /\ u \in DOMAIN snapshot.votes /\ snapshot.votes[u] = Null
              /\ u \in DOMAIN reveal.votes /\ reveal.votes[u] = Null]_vars

\* The room is hidden and no session of the registry holds a vote, in memory or
\* in its attachment.
NoVotes ==
    /\ ~revealed
    /\ \A i \in DOMAIN sessions :
          /\ sessions[i].vote = Null
          /\ attachment[sessions[i].webSocket].vote = Null

C10_Disconnect ==
    [][(last'.op = "close" /\ Has(sessions, last'.ws)) =>
          /\ ~Has(sessions', last'.ws)
          /\ IF Requester.name # << >>
             THEN /\ sent' # << >>
                  /\ \A i \in DOMAIN sent' :
                        sent'[i].msg =
                            [type |-> "userLeft", userId |-> Requester.userId]
                  /\ \A c \in NamedConns(sessions) \ {last'.ws} :
                        CountTo(sent', c) = 1
                  /\ \A c \in Conns : CountTo(sent', c) <= 1
             ELSE sent' = << >>]_vars

\* C10 witness: a named session's connection closed and the other named session
\* was sent userLeft.
C10_Witness ==
    /\ last.op = "close"
    /\ \E i \in DOMAIN sent :
          sent[i].msg.type = "userLeft" /\ sent[i].to # last.ws /\ sent[i].ok

\* The connections that have a session in ss.
ConnsOf(ss) == {ss[i].webSocket : i \in DOMAIN ss}

\* The connections on which a send of the log threw.
Failed(log) == {log[i].to : i \in {j \in DOMAIN log : ~log[j].ok}}

\* C11 (userLeft audience): when a named session disconnects, the connections
\* the coordinator sends (or attempts to send) userLeft to are exactly the
\* remaining named sessions: the named sessions other than the one that
\* disconnects.
C11_UserLeftAudience ==
    [][(last'.op = "close" /\ Has(sessions, last'.ws) /\ Requester.name # << >>) =>
          SentTo(sent') = NamedConns(sessions) \ {last'.ws}]_vars

\* C12 (protocol error): a message that does not parse, or whose tag is none of
\* join, vote, reveal, reset, emoji, is answered with one error message to the
\* connection it came from and with nothing else, and leaves the registry, the
\* attachments and the revealed flag unchanged.
C12_ProtocolError ==
    [][\A op \in {"unparseable", "unknown"} :
          MessageStep(op) =>
              /\ Len(sent') = 1
              /\ sent'[1].to = last'.ws
              /\ sent'[1].msg.type = "error"
              /\ sessions' = sessions
              /\ attachment' = attachment
              /\ revealed' = revealed]_vars

\* The steps in which the handler calls broadcast.
BroadcastStep ==
    /\ Has(sessions, last'.ws)
    /\ \/ last'.op = "join"
       \/ last'.op \in GatedOps \cup {"close"} /\ Requester.name # << >>

C15_AttachmentAgreement ==
    \A i \in DOMAIN sessions :
        LET s == sessions[i]
            a == attachment[s.webSocket]
        IN  /\ a # NoAttachment
            /\ a.userId = s.userId
            /\ a.name = s.name
            /\ a.vote = s.vote

\* C15 witness: a named session has just cast a vote that its attachment
\* carries, next to a session that never joined.
C15_Witness ==
    /\ last.op = "vote"
    /\ Has(sessions, last.ws)
    /\ Get(sessions, last.ws).vote \in Cards
    /\ attachment[last.ws].vote = Get(sessions, last.ws).vote
    /\ \E i \in DOMAIN sessions : sessions[i].name = << >>

\* C16 (revealed frame): the revealed flag changes value only in a step that
\* handles a reveal (to true) or a reset (to false) from a named session.
C16_RevealedFrame ==
    [][revealed' # revealed =>
          \/ MessageStep("reveal") /\ Requester.name # << >> /\ revealed'
          \/ MessageStep("reset") /\ Requester.name # << >> /\ ~revealed']_vars

\* C17 (reveal state lost on resumption): after every suspension and resumption
\* the revealed flag is false whatever it was before, and every session keeps
\* the vote it had before the suspension.
C17_ResumeHidden ==
    [][last'.op = "resume" =>
          /\ revealed' = FALSE
          /\ \A i \in DOMAIN sessions :
                /\ Has(sessions', sessions[i].webSocket)
                /\ Get(sessions', sessions[i].webSocket).vote = sessions[i].vote]_vars

\* C17 witness: the coordinator has resumed from a suspension that began with
\* the votes revealed; the flag is false and a cast vote is still held.
C17_Witness ==
    /\ last.op = "resume"
    /\ last.was = TRUE
    /\ revealed = FALSE
    /\ \E i \in DOMAIN sessions : sessions[i].vote \in Cards

\* The message types that are sent with broadcast.
BroadcastTypes == {"userJoined", "userLeft", "voted", "revealed", "reset", "emoji"}

\* The connections whose session has an empty name while the step's messages
\* are sent: a join has assigned the requester's name before it sends.
AnonConns ==
    {c \in ConnsOf(sessions) :
        IF last'.op = "join" /\ c = last'.ws
        THEN last'.name = << >>
        ELSE Get(sessions, c).name = << >>}

AnonIds == {Get(sessions, c).userId : c \in AnonConns}

\* C18 (anonymous invisibility): accepting a connection creates a session with
\* a userId no other session has, an empty name and no vote, and sends nothing;
\* a session whose name is empty is in no users list and in no votes map of a
\* state or revealed message, and no broadcast message is sent to it.
C18_AnonymousInvisible ==
    [][/\ last'.op = "accept" =>
              /\ sent' = << >>
              /\ Has(sessions', last'.ws)
              /\ Get(sessions', last'.ws).name = << >>
              /\ Get(sessions', last'.ws).vote = Null
              /\ \A i \in DOMAIN sessions :
                    sessions[i].userId # Get(sessions', last'.ws).userId
       /\ \A i \in DOMAIN sent' :
              LET m == sent'[i].msg
              IN  /\ m.type \in BroadcastTypes => sent'[i].to \notin AnonConns
                  /\ "users" \in DOMAIN m =>
                        \A k \in DOMAIN m.users : m.users[k].id \notin AnonIds
                  /\ "votes" \in DOMAIN m => DOMAIN m.votes \cap AnonIds = {}]_vars

\* C18 witness: the votes were revealed to the one named session while a
\* session with an empty name, which still holds a cast vote, was in the
\* registry; the votes map leaves that session out.
C18_Witness ==
    /\ last.op = "reveal"
    /\ Len(sent) = 1
    /\ sent[1].msg.type = "revealed"
    /\ \E i \in DOMAIN sessions :
          /\ sessions[i].name = << >>
          /\ sessions[i].vote \in Cards
          /\ sessions[i].webSocket # sent[1].to
          /\ sessions[i].userId \notin DOMAIN sent[1].msg.votes

\* C19 (emoji relay): an emoji message from a named session is sent, with the
\* sender's userId as fromUserId and the given target as toUserId, once to every
\* named session, the sender included, whether or not the target is a session of
\* the registry; no session's name or vote changes, nor the revealed flag.
C19_EmojiRelay ==
    [][(MessageStep("emoji") /\ Requester.name # << >>) =>
          /\ \A i \in DOMAIN sent' :
                sent'[i].msg = [type |-> "emoji",
                                fromUserId |-> Requester.userId,
                                toUserId |-> last'.target,
                                emoji |-> last'.emoji]
          /\ SentTo(sent') = NamedConns(sessions)
          /\ \A c \in NamedConns(sessions) : CountTo(sent', c) = 1
          /\ revealed' = revealed
          /\ attachment' = attachment
          /\ \A i \in DOMAIN sessions' :
                \E j \in DOMAIN sessions : sessions'[i] = sessions[j]]_vars

\* C19 witness: an emoji aimed at a userId that no session has was relayed to
\* both named sessions, the sender among them.
C19_Witness ==
    /\ last.op = "emoji"
    /\ \A i \in DOMAIN sessions : sessions[i].userId # last.target
    /\ Len(sent) = 2
    /\ last.ws \in SentTo(sent)
    /\ \A i \in DOMAIN sent : sent[i].ok

\* C20 (room state machine): the room starts with revealed = false; a reveal
\* from a named session always ends with revealed = true, whatever the number
\* of participants and of cast votes; a reset from a named session always ends
\* with revealed = false, every vote cleared and reset sent to every named
\* session, also when revealed was already false.
C20_RoomStateMachine ==
    /\ revealed = FALSE
    /\ [][/\ (MessageStep("reveal") /\ Requester.name # << >>) => revealed' = TRUE
          /\ (MessageStep("reset") /\ Requester.name # << >>) =>
                /\ revealed' = FALSE
                /\ \A i \in DOMAIN sessions' : sessions'[i].vote = Null
                /\ \A c \in ConnsOf(sessions) : attachment'[c].vote = Null
                /\ \A i \in DOMAIN sent' : sent'[i].msg = [type |-> "reset"]
                /\ \A c \in NamedConns(sessions) : CountTo(sent', c) = 1]_vars

\* C20 witness: the only participant of the room revealed the votes when none
\* had been cast.
C20_Witness ==
    /\ last.op = "reveal"
    /\ revealed = TRUE
    /\ Len(sessions) = 1
    /\ sessions[1].name # << >>
    /\ sessions[1].vote = Null
    /\ Len(sent) = 1 /\ sent[1].msg.type = "revealed"

\* The connections that have a session before and after the step.
Staying == ConnsOf(sessions) \cap ConnsOf(sessions')

\* C21 as claimed (own messages only): the name and the vote of a session
\* change only in a step that handles a join, vote or reset message received
\* from that same session.
C21_OwnMessagesOnly ==
    [][\A c \in Staying :
          (\/ Get(sessions', c).name # Get(sessions, c).name
           \/ Get(sessions', c).vote # Get(sessions, c).vote) =>
              /\ last'.ws = c
              /\ last'.op \in {"join", "vote", "reset"}]_vars

\* C21 amended: the name of a session changes only in a step that handles a
\* join from that same session; its vote changes only in a step that handles a
\* vote from that same session, or a reset from any named session, which sets
\* it to null.
C21_OwnOrReset ==
    [][\A c \in Staying :
          /\ Get(sessions', c).name # Get(sessions, c).name =>
                last'.ws = c /\ last'.op = "join"
          /\ Get(sessions', c).vote # Get(sessions, c).vote =>
                \/ last'.ws = c /\ last'.op = "vote"
                \/ /\ MessageStep("reset")
                   /\ Requester.name # << >>
                   /\ Get(sessions', c).vote = Null]_vars

\* C21 witness: a reset was handled while another named session was in the
\* room; that session holds no vote.
C21_Witness ==
    /\ last.op = "reset"
    /\ Len(sent) = 2
    /\ \E i \in DOMAIN sessions :
          /\ sessions[i].webSocket # last.ws
          /\ sessions[i].name # << >>
          /\ sessions[i].vote = Null

\* C23 (name length): every name in the registry and in an attachment has at
\* most 32 characters; a join stores the first 32 characters of a longer name
\* and a shorter name as it is.
C23_NameLength ==
    [][/\ \A i \in DOMAIN sessions' : Len(sessions'[i].name) <= 32
       /\ \A c \in accepted' : Len(attachment'[c].name) <= 32
       /\ MessageStep("join") =>
             /\ Has(sessions', last'.ws)
             /\ Get(sessions', last'.ws).name =
                   IF Len(last'.name) > 32
                   THEN SubSeq(last'.name, 1, 32)
                   ELSE last'.name
             /\ attachment'[last'.ws].name = Get(sessions', last'.ws).name]_vars

\* C23 witness: a join with a name of more than 32 characters was handled and
\* the session's name has 32.
C23_Witness ==
    /\ last.op = "join"
    /\ Len(last.name) > 32
    /\ Has(sessions, last.ws)
    /\ Len(Get(sessions, last.ws).name) = 32

\* The userId fields of a message that are about the session that sent the
\* inbound message or whose connection closed.
AboutRequester(m) ==
    IF m.type \in {"joined", "userJoined", "voted", "userLeft"} THEN {m.userId}
    ELSE IF m.type = "emoji" THEN {m.fromUserId}
    ELSE {}

\* The userIds a state or revealed message lists.
Listed(m) ==
    (IF "users" \in DOMAIN m THEN {m.users[k].id : k \in DOMAIN m.users} ELSE {})
        \cup (IF "votes" \in DOMAIN m THEN DOMAIN m.votes ELSE {})

\* C24 (stable userId): a session keeps the userId drawn when its connection
\* was accepted for as long as it is in the registry, across joins, votes,
\* resets and resumptions, and so does its attachment; every message about a
\* session carries that userId.
C24_StableUserId ==
    [][/\ \A c \in Staying : Get(sessions', c).userId = Get(sessions, c).userId
       /\ \A i \in DOMAIN sessions' :
             /\ sessions'[i].userId = RandomUUID(sessions'[i].webSocket)
             /\ attachment'[sessions'[i].webSocket].userId = sessions'[i].userId
       /\ \A i \in DOMAIN sent' :
             /\ AboutRequester(sent'[i].msg) \subseteq {Requester.userId}
             /\ Listed(sent'[i].msg) \subseteq
                   {sessions[j].userId : j \in DOMAIN sessions}]_vars

\* C24 witness: after a resumption a named session that holds a vote has the
\* userId drawn when its connection, the second one, was accepted.
C24_Witness ==
    /\ last.op = "resume"
    /\ \E i \in DOMAIN sessions :
          /\ sessions[i].webSocket = 2
          /\ sessions[i].userId = RandomUUID(2)
          /\ sessions[i].name # << >>
          /\ sessions[i].vote \in Cards

\* The steps that handle an inbound message.
MessageOps ==
    {"join", "joinNoName", "unparseable", "unknown", "vote", "reveal", "reset", "emoji"}

\* The send of the catch block is inside no try: when it throws, the error
\* leaves webSocketMessage.  Error messages are sent only by the catch block and
\* by the name check, whose failure enters the catch block.
Uncaught(log) == \E i \in DOMAIN log : log[i].msg.type = "error" /\ ~log[i].ok

\* A failure was raised while the message was handled: the payload did not
\* parse, the join had no usable name, or a send to the requester threw.
FailureRaised ==
    \/ last'.op \in {"unparseable", "joinNoName"}
    \/ \E i \in DOMAIN sent' :
          /\ sent'[i].to = last'.ws
          /\ ~sent'[i].ok
          /\ sent'[i].msg.type \in {"state", "joined", "error"}

\* C22 (error containment): whatever failure is raised while an inbound
\* message is handled (unparseable payload, malformed join name, a send of
\* state, joined or error to the requester that throws), no error leaves the
\* handler, no other session's registry entry changes and no error message is
\* sent to another session.
C22_ErrorContainment ==
    [][(last'.op \in MessageOps /\ Has(sessions, last'.ws) /\ FailureRaised) =>
          /\ ~Uncaught(sent')
          /\ \A c \in ConnsOf(sessions) \ {last'.ws} :
                Has(sessions', c) /\ Get(sessions', c) = Get(sessions, c)
          /\ \A i \in DOMAIN sent' :
                sent'[i].msg.type = "error" => sent'[i].to = last'.ws]_vars

(* ----------------------- reading a client step ------------------------- *)

\* The sockets that exist.
Existing(rs) == {s \in Sockets : rs[s] # "none"}

\* The send functions and the message each one serializes.
SendOps == {"sendVote", "sendReveal", "sendReset", "sendEmoji"}

WireTypeOf(op) ==
    CASE op = "sendVote" -> "vote"
      [] op = "sendReveal" -> "reveal"
      [] op = "sendReset" -> "reset"
      [] op = "sendEmoji" -> "emoji"

\* C25 (client teardown): once the effect of the hook has been cleaned up, no
\* reconnect timer is pending, none gets scheduled, and no socket is created.
C25_NoReconnectAfterTeardown ==
    [][effect' = "cleaned" =>
          /\ timers' = {}
          /\ effect = "cleaned" => Existing(readyState') = Existing(readyState)]_vars

C27_ClientSends ==
    [][/\ event'.op \in SendOps =>
             /\ event'.message.type = WireTypeOf(event'.op)
             /\ IF wsRef # NoSocket /\ readyState[wsRef] = "OPEN"
                THEN outbox' =
                        [outbox EXCEPT ![wsRef] = Append(outbox[wsRef], event'.message)]
                ELSE outbox' = outbox
       /\ event'.op = "onopen" =>
             outbox' = [outbox EXCEPT ![event'.ws] =
                           Append(outbox[event'.ws],
                                  [type |-> "join", name |-> UserName])]
       /\ event'.op \notin SendOps \cup {"onopen"} => outbox' = outbox]_vars

\* C27 witness: sendVote was called while the client had no socket, after the
\* first socket had carried its join and nothing else; nothing was added.
C27_Witness ==
    /\ event.op = "sendVote"
    /\ wsRef = NoSocket
    /\ outbox[1] = <<[type |-> "join", name |-> UserName]>>
    /\ \A s \in Sockets \ {1} : outbox[s] = << >>

\* C28 (join first): on every socket the client has opened, the first message
\* handed to send is the join with the display name; nothing is sent on a
\* socket that has not opened.
C28_JoinFirst ==
    \A s \in Sockets :
        /\ readyState[s] \in {"none", "CONNECTING"} => outbox[s] = << >>
        /\ readyState[s] = "OPEN" => outbox[s] # << >>
        /\ outbox[s] # << >> => outbox[s][1] = [type |-> "join", name |-> UserName]

\* C28 witness: the second socket, opened by a reconnection, has carried the
\* join and then a vote, as the first one had carried its join.
C28_Witness ==
    /\ outbox[1] # << >>
    /\ Len(outbox[2]) = 2
    /\ outbox[2][1].type = "join"
    /\ outbox[2][2].type = "vote"

\* C29 (mirror updates): userLeft removes that participant from the list and
\* that userId from the vote map and leaves the other entries as they are;
\* reset sets revealed to false, empties the vote map and sets hasVoted to
\* false for every participant, keeping the list of participants.
C29_MirrorUpdates ==
    [][(event'.op = "onmessage" /\ effect = "active") =>
          LET m == event'.message
          IN  /\ m.type = "userLeft" =>
                    /\ hook'.users = SelectSeq(hook.users, LAMBDA u : u.id # m.userId)
                    /\ DOMAIN hook'.votes = DOMAIN hook.votes \ {m.userId}
                    /\ \A k \in DOMAIN hook'.votes : hook'.votes[k] = hook.votes[k]
                    /\ hook'.revealed = hook.revealed
                    /\ hook'.myUserId = hook.myUserId
              /\ m.type = "reset" =>
                    /\ hook'.revealed = FALSE
                    /\ DOMAIN hook'.votes = {}
                    /\ Len(hook'.users) = Len(hook.users)
                    /\ \A i \in DOMAIN hook.users :
                          /\ hook'.users[i].id = hook.users[i].id
                          /\ hook'.users[i].name = hook.users[i].name
                          /\ hook'.users[i].hasVoted = FALSE
                    /\ hook'.myUserId = hook.myUserId]_vars

\* C29 witness: a userLeft was received that left one participant in the list
\* and one entry, another userId's, in the vote map.
C29_Witness ==
    /\ event.op = "onmessage"
    /\ event.message.type = "userLeft"
    /\ Len(hook.users) = 1
    /\ hook.users[1].id # event.message.userId
    /\ DOMAIN hook.votes = {hook.users[1].id}

(* ------------------------ the mirror and the room ---------------------- *)

\* The messages of a log that reached connection c, in the order sent.
Inbox(log, c) ==
    LET got == SelectSeq(log, LAMBDA e : e.to = c /\ e.ok)
    IN  [i \in DOMAIN got |-> got[i].msg]

\* The hook state after ws.onmessage has run for each message of a sequence.
RECURSIVE ReceiveAll(_, _)
ReceiveAll(h, msgs) ==
    IF msgs = << >> THEN h ELSE ReceiveAll(Received(h, Head(msgs)), Tail(msgs))

\* The mirror that equals the room ss, rev: what the claim requires of a client.
MirrorOf(ss, rev, userId) ==
    [users |-> UsersList(ss), myUserId |-> userId, revealed |-> rev,
     votes |-> IF rev THEN JsonObject(VotesOfNamed(ss)) ELSE NoVotesYet,
     connected |-> TRUE, error |-> Null]

\* The mirror a client holds when it opens a connection: the initial one, or,
\* at a reconnect, one that equalled the room when its last connection ended.
PriorMirrors ==
    {HookInit} \cup
        {MirrorOf(ss, rev, RandomUUID(1)) : ss \in Rooms, rev \in BOOLEAN}

\* A mirror equals the room: the same participants with the same hasVoted (in
\* any order), the same flag, and the votes of the named sessions when revealed
\* (a missing entry read as null), no entry when not revealed.
Agrees(h, ss, rev) ==
    LET users == UsersList(ss)
        votes == VotesOfNamed(ss)
        voteOf(u) == IF u \in DOMAIN h.votes THEN WireVote(h.votes[u]) ELSE Null
    IN  /\ Len(h.users) = Len(users)
        /\ {h.users[i] : i \in DOMAIN h.users} = {users[i] : i \in DOMAIN users}
        /\ h.revealed = rev
        /\ IF rev
           THEN /\ DOMAIN h.votes \subseteq DOMAIN votes
                /\ \A u \in DOMAIN votes : voteOf(u) = WireVote(votes[u])
           ELSE DOMAIN h.votes = {}

\* C30 (mirror agrees with the coordinator): in every step other than a
\* resumption, a client on a named connection whose mirror equalled the room
\* before the step (or that has just joined, on a first connection or on a
\* reconnection) and that processes every message the step sent to it has a
\* mirror that equals the room after the step: participants, hasVoted, revealed
\* and the vote map (the named sessions' votes when revealed, empty otherwise).
C30_MirrorAgrees ==
    [][last'.op # "resume" =>
          \A c \in NamedConns(sessions') \ stale' :
              LET before ==
                      IF c \in NamedConns(sessions)
                      THEN {MirrorOf(sessions, revealed, Get(sessions, c).userId)}
                      ELSE PriorMirrors
              IN  \A h \in before :
                      Agrees(ReceiveAll(h, Inbox(sent', c)), sessions', revealed')]_vars

\* Whether a participant list names each userId once and no one without a name.
WellFormedList(users) ==
    /\ \A i, j \in DOMAIN users : users[i].id = users[j].id => i = j
    /\ \A i \in DOMAIN users : users[i].name # << >>

\* C31 (no duplicates in the client's list): a client on a named connection
\* whose participant list equals the room's, and so names each userId once and
\* no empty name, still has such a list after it has processed the messages a
\* step of the coordinator sent to it, a repeated join of a named session
\* included.
C31_NoDuplicates ==
    [][\A c \in (NamedConns(sessions) \cap NamedConns(sessions')) \ stale' :
          LET h == MirrorOf(sessions, revealed, Get(sessions, c).userId)
          IN  WellFormedList(h.users) =>
                  WellFormedList(ReceiveAll(h, Inbox(sent', c)).users)]_vars

\* C32 (an anonymous session holds no vote): every session of the registry
\* whose name is empty has vote null, in memory and in its attachment.
C32_AnonymousNoVote ==
    \A i \in DOMAIN sessions :
        sessions[i].name = << >> =>
            /\ sessions[i].vote = Null
            /\ attachment[sessions[i].webSocket].vote = Null

\* C33 (userIds are unique): no two sessions of the registry have the same
\* userId, after a resumption as well, so the vote map keyed by userId has one
\* entry for each named session.
C33_UniqueUserIds ==
    /\ \A i, j \in DOMAIN sessions :
          sessions[i].userId = sessions[j].userId => i = j
    /\ Cardinality(DOMAIN VotesOfNamed(sessions)) = Cardinality(NamedConns(sessions))

\* C33 witness: the registry was rebuilt by a resumption and holds two named
\* sessions, both with a vote.
C33_Witness ==
    /\ last.op = "resume"
    /\ Len(sessions) = 2
    /\ \A i \in DOMAIN sessions : sessions[i].name # << >> /\ sessions[i].vote \in Cards

\* The votes key of the revealed message or of the state message of a joiner,
\* as the coordinator builds it from the registry ss while revealed.
VotesShown(ss) == JsonObject(VotesOfNamed(ss))

\* C34 (revealed votes are consistent): as long as the room stays revealed,
\* the vote map the coordinator sends (in the revealed broadcast, in the state
\* of a later joiner) gives a userId the same value after every step as before
\* it: a vote handled while revealed changes no value that is sent later.
C34_RevealedVotesConsistent ==
    [][(revealed /\ revealed') =>
          \A u \in DOMAIN VotesOfNamed(sessions) \cap DOMAIN VotesOfNamed(sessions') :
              /\ u \in DOMAIN VotesShown(sessions) <=> u \in DOMAIN VotesShown(sessions')
              /\ u \in DOMAIN VotesShown(sessions) =>
                    VotesShown(sessions')[u] = VotesShown(sessions)[u]]_vars

(* --------------------------- two executions ---------------------------- *)

\* The vote of the second of two executions that differ only in which
\* non-null card is voted: another card for a card, the same otherwise.
OtherCard(vote) == IF vote \in Cards THEN "8" ELSE vote

\* The registry of the second execution: the handlers copy a card and test it
\* against null, so the two registries differ in the cards alone.
Twin(ss) == [i \in DOMAIN ss |-> [ss[i] EXCEPT !.vote = OtherCard(ss[i].vote)]]

\* The messages built from one session and from the registry while the room is
\* hidden are the same for ss and for tt.
SameHiddenMessages(ss, tt) ==
    /\ StateMessage(tt, FALSE) = StateMessage(ss, FALSE)
    /\ \A i \in DOMAIN ss :
          /\ VotedMessage(tt[i]) = VotedMessage(ss[i])
          /\ JoinedMessage(tt[i]) = JoinedMessage(ss[i])
          /\ UserJoinedMessage(tt[i]) = UserJoinedMessage(ss[i])
          /\ UserLeftMessage(tt[i]) = UserLeftMessage(ss[i])
          /\ \A target \in TargetInputs, emoji \in EmojiInputs :
                EmojiMessage(tt[i], target, emoji) = EmojiMessage(ss[i], target, emoji)

Removed(ss) == {c \in Conns : c < nextConn /\ ~Has(ss, c)}

\* Whether a message names userId u as a participant or as a key of its votes.
Shows(m, u) ==
    \/ "users" \in DOMAIN m /\ \E i \in DOMAIN m.users : m.users[i].id = u
    \/ "votes" \in DOMAIN m /\ u \in DOMAIN m.votes

\* C36 (message on a connection without a session): a message that arrives on
\* a connection that has no entry in the registry is not processed: the
\* coordinator closes the connection, changes no session, no attachment and not
\* the revealed flag, and sends nothing; and the close callback of a connection
\* the coordinator has closed for this reason broadcasts no userLeft.
C36_SessionNotFound ==
    [][/\ (last'.op \in MessageOps /\ ~Has(sessions, last'.ws)) =>
             /\ last'.ws \in serverClosed'
             /\ sessions' = sessions
             /\ attachment' = attachment
             /\ revealed' = revealed
             /\ sent' = << >>
       /\ (last'.op = "close" /\ last'.ws \in serverClosed) =>
             \A i \in DOMAIN sent' : sent'[i].msg.type # "userLeft"]_vars

\* C37 (removal is permanent): a connection whose session has been removed
\* from the registry has no session after any later step, a resumption
\* included, is sent nothing, and its userId is in no users list and no vote
\* map that is sent.
C37_RemovalPermanent ==
    [][\A c \in Removed(sessions) :
          /\ ~Has(sessions', c)
          /\ \A i \in DOMAIN sent' :
                /\ sent'[i].to # c
                /\ ~Shows(sent'[i].msg, RandomUUID(c))]_vars

\* The sockets that are connecting or open.
Live(rs) == {s \in Sockets : rs[s] \in {"CONNECTING", "OPEN"}}

\* C38 (at most one live connection per client): after every step of the
\* hook, a re-run of its effect included, at most one socket is connecting or
\* open, and the close event of a socket other than the current one leaves the
\* reference to the current socket as it is.
C38_OneLiveConnection ==
    [][/\ Cardinality(Live(readyState')) <= 1
       /\ (event'.op = "onclose" /\ wsRef # NoSocket /\ wsRef # event'.ws) =>
             wsRef' = wsRef]_vars

====
